---- MODULE Spec2Model ----
(***************************************************************************)
(* tatoebatools/datafile.py: the multi-destination Buffer (add, _save,     *)
(* clear) writing to a directory, and custom_reader / unsplit_field, the   *)
(* repairing reader of delimiter-separated lines.                          *)
(*                                                                         *)
(* Spec        behaviours of one Buffer over an output directory           *)
(* SpecReader  behaviours of one custom_reader generator over a file       *)
(* SpecSplit   behaviours of one caller iterating a DataFile: Links,       *)
(*             UserLanguages or DataFile.split                             *)
(* SpecMapper  one call of get_mapped_fields                               *)
(***************************************************************************)
EXTENDS Integers, Sequences, FiniteSets, TLC

VARIABLES
    disk,       \* the output directory: path -> rows of the file, or NoFile
    fps,        \* Buffer._fps: the paths found in the directory by __init__
    max,        \* Buffer._max
    data,       \* Buffer._data: out_fname -> list of buffered elements
    order,      \* insertion order of the keys of Buffer._data
    pc,         \* "idle", or "clear" while Buffer.clear() is running
    ci,         \* position of the for loop of Buffer.clear() in its keys
    \* history of the run, read by the properties only
    disk0,      \* the directory as Buffer.__init__ found it
    added,      \* out_fname -> every element passed to add(), in call order
    renames,    \* out_fname -> times this Buffer renamed its .part file
    flushed,    \* out_fname -> outcome of its last _save: none, ok, failed
    nbFail,     \* number of _save calls that hit OSError
    lastGrowth, \* out_fname -> growth of getsizeof caused by its last append
    clearsInRow, \* clear() calls completed since the last add()
    nbClears,   \* clear() calls entered
    \* custom_reader(string_io, delimiter, text_col)
    lines,      \* string_io: the physical lines of the file, each a string
    text_col,   \* <<>> for None, else <<index>>
    nb_cols,    \* the number of columns in a regular row
    pos,        \* lines the for loop has taken from the csv reader
    real_row,   \* the record being accumulated
    out,        \* the records yielded so far, in order
    rpc,        \* "start", "rows", "done", or "error" once an exception left
    \* a caller iterating DataFile(path, delimiter, text_col)
    is_file,    \* path.is_file()
    caller,     \* "Links", "UserLanguages" or "split"
    columns,    \* split(columns, index, int_key)
    index,
    int_key,
    spc,        \* "start", "rows", "clear", "done", or the exception raised
    taken,      \* records the caller's for loop has received
    routed,     \* the calls split made to buffer.add: out file name and row
    yielded,    \* the rows Links or UserLanguages made objects of and yielded
    \* get_mapped_fields(row, columns, index, int_key)
    args,       \* the arguments of the call
    mapped,     \* what the call returned, or the exception it raised
    mpc         \* "call", "returned" or "raised"

bvars == <<disk, fps, max, data, order, pc, ci, disk0, added, renames,
           flushed, nbFail, lastGrowth, clearsInRow, nbClears>>

rvars == <<lines, text_col, nb_cols, pos, real_row, out, rpc>>

svars == <<is_file, caller, columns, index, int_key, spc, taken, routed,
           yielded>>

mvars == <<args, mapped, mpc>>

vars == <<bvars, rvars, svars, mvars>>

----------------------------------------------------------------------------
\* Bounds of the model.

\* calls of add() and clear() in one behaviour
MaxCalls == 5

\* elements handed to add(): the Buffer never looks into an element, so the
\* calls are told apart by numbering their elements in call order
Records == 1..MaxCalls
\* out file names handed to add()
Dests == {"en-fr_links.tsv", "fr-en_links.tsv"}
\* OSErrors the directory raises in one behaviour
MaxFailures == 2
\* out file names that a prior run may have left files for
StaleDests == {"en-fr_links.tsv"}
\* rows a prior run left in a file of the directory
StaleRows == <<0>>
\* values of max_size the Buffer is built with
MaxSizes == {56, 88}

\* a path of the directory: no file there, or a file holding rows
NoFile == [exists |-> FALSE, rows |-> <<>>]
File(rows) == [exists |-> TRUE, rows |-> rows]

----------------------------------------------------------------------------
\* The directory.

Path(out_fname) == out_fname
PartPath(out_fname) == out_fname \o ".part"
Paths == {Path(d) : d \in Dests} \cup {PartPath(d) : d \in Dests}
\* Path.stem of a '.part' path: the name without its last suffix
Stem(out_fp) == CHOOSE d \in Dests : PartPath(d) = out_fp

Exists(dk, p) == dk[p].exists
Content(dk, p) == dk[p].rows

\* a file opened with mode="w": what it held is lost
AppendRows_Truncates(dk, p, rows) == [dk EXCEPT ![p] = File(rows)]

\* open(out_fp, mode="a") followed by writing rows
AppendRows(dk, p, rows) == [dk EXCEPT ![p] = File(Content(dk, p) \o rows)]
\* Path.rename: the target is replaced when it exists
Rename(dk, p, q) == [dk EXCEPT ![q] = dk[p], ![p] = NoFile]
Unlink(dk, p) == [dk EXCEPT ![p] = NoFile]

----------------------------------------------------------------------------
\* sys.getsizeof of a list grown from empty by append().

RECURSIVE Allocated(_)
Allocated(n) ==
    IF n = 0 THEN 0
    ELSE LET prev == Allocated(n - 1)
             want == n + (n \div 8) + 6
         IN IF n <= prev THEN prev ELSE want - (want % 4)

getsizeof(list) == 56 + 8 * Allocated(Len(list))

----------------------------------------------------------------------------
\* Buffer._save: the outcomes of one call, each the directory after it, the
\* list after it and whether OSError was caught.

Prefixes(rows) == {SubSeq(rows, 1, k) : k \in 0..Len(rows)}

\* a _save that forgets self._data[out_fname].clear()
SaveOk_KeepsList(dk, rows, out_fname, end) ==
    LET out_fp == PartPath(out_fname)
        written == AppendRows(dk, out_fp, rows)
    IN [disk |-> IF end THEN Rename(written, out_fp, Path(Stem(out_fp)))
                 ELSE written,
        list |-> rows,
        failed |-> FALSE,
        renamed |-> end]

SaveOk(dk, rows, out_fname, end) ==
    LET out_fp == PartPath(out_fname)
        written == AppendRows(dk, out_fp, rows)
    IN [disk |-> IF end THEN Rename(written, out_fp, Path(Stem(out_fp)))
                 ELSE written,
        list |-> <<>>,
        failed |-> FALSE,
        renamed |-> end]

SaveFailed(dk, rows, out_fname) ==
    \* open() raised: nothing reached the directory
    {[disk |-> dk, list |-> rows, failed |-> TRUE, renamed |-> FALSE]}
    \cup
    \* a write raised: some of the rows had been written
    {[disk |-> AppendRows(dk, PartPath(out_fname), pre), list |-> rows,
      failed |-> TRUE, renamed |-> FALSE] : pre \in Prefixes(rows)}

\* a _save that renames the .part file whether or not the write succeeded
save_RenamesOnFailure(dk, rows, out_fname, end, mayFail) ==
    LET out_fp == PartPath(out_fname)
        finish(o) == IF end /\ Exists(o.disk, out_fp)
                     THEN [o EXCEPT !.disk = Rename(@, out_fp, Path(out_fname)),
                                    !.renamed = TRUE]
                     ELSE o
    IN {SaveOk(dk, rows, out_fname, end)}
       \cup (IF mayFail THEN {finish(o) : o \in SaveFailed(dk, rows, out_fname)}
             ELSE {})

save(dk, rows, out_fname, end, mayFail) ==
    {SaveOk(dk, rows, out_fname, end)}
    \cup (IF mayFail THEN SaveFailed(dk, rows, out_fname) ELSE {})

----------------------------------------------------------------------------
InKeys(out_fname) == \E i \in 1..Len(order) : order[i] = out_fname

RECURSIVE SumLen(_, _)
SumLen(f, S) ==
    IF S = {} THEN 0
    ELSE LET d == CHOOSE x \in S : TRUE IN Len(f[d]) + SumLen(f, S \ {d})

NbAdds == SumLen(added, Dests)
MayFail == nbFail < MaxFailures

BufferInit ==
    /\ disk \in {dk \in [Paths -> {NoFile, File(StaleRows)}] :
                  \A d \in Dests \ StaleDests :
                     ~Exists(dk, Path(d)) /\ ~Exists(dk, PartPath(d))}
    /\ fps = {p \in Paths : Exists(disk, p)}
    /\ max \in MaxSizes
    /\ data = [d \in Dests |-> <<>>]
    /\ order = <<>>
    /\ pc = "idle"
    /\ ci = 0
    /\ disk0 = disk
    /\ added = [d \in Dests |-> <<>>]
    /\ renames = [d \in Dests |-> 0]
    /\ flushed = [d \in Dests |-> "none"]
    /\ nbFail = 0
    /\ lastGrowth = [d \in Dests |-> 0]
    /\ clearsInRow = 0
    /\ nbClears = 0

\* Buffer.add(elt, out_fname)
Add(elt, out_fname) ==
    /\ pc = "idle"
    /\ NbAdds + nbClears < MaxCalls
    /\ elt = NbAdds + 1
    /\ LET first == ~InKeys(out_fname)
           out_fp == Path(out_fname)
           stale == first /\ out_fp \in fps
           disk1 == IF stale THEN Unlink(disk, out_fp) ELSE disk
           before == IF first THEN <<>> ELSE data[out_fname]
           list == Append(before, elt)
           full == getsizeof(list) > max
       IN /\ order' = IF first THEN Append(order, out_fname) ELSE order
          /\ fps' = IF stale THEN fps \ {out_fp} ELSE fps
          /\ added' = [added EXCEPT ![out_fname] = Append(@, elt)]
          /\ lastGrowth' = [lastGrowth EXCEPT
                              ![out_fname] = getsizeof(list) - getsizeof(before)]
          /\ clearsInRow' = 0
          /\ IF full
             THEN \E o \in save(disk1, list, out_fname, FALSE, MayFail) :
                    /\ disk' = o.disk
                    /\ data' = [data EXCEPT ![out_fname] = o.list]
                    /\ flushed' = [flushed EXCEPT ![out_fname] =
                                     IF o.failed THEN "failed" ELSE "ok"]
                    /\ nbFail' = nbFail + (IF o.failed THEN 1 ELSE 0)
             ELSE /\ disk' = disk1
                  /\ data' = [data EXCEPT ![out_fname] = list]
                  /\ UNCHANGED <<flushed, nbFail>>
    /\ UNCHANGED <<max, pc, ci, disk0, renames, nbClears>>
    /\ UNCHANGED <<rvars, svars, mvars>>

\* Buffer.clear() is entered
ClearBegin ==
    /\ pc = "idle"
    /\ NbAdds + nbClears < MaxCalls
    /\ nbClears' = nbClears + 1
    /\ pc' = "clear"
    /\ ci' = 1
    /\ UNCHANGED <<disk, fps, max, data, order, disk0, added, renames,
                   flushed, nbFail, lastGrowth, clearsInRow>>
    /\ UNCHANGED <<rvars, svars, mvars>>

\* one turn of the loop of Buffer.clear(): self._save(out_fname, end=True)
ClearSave ==
    /\ pc = "clear"
    /\ ci <= Len(order)
    /\ LET out_fname == order[ci]
       IN \E o \in save(disk, data[out_fname], out_fname, TRUE, MayFail) :
            /\ disk' = o.disk
            /\ data' = [data EXCEPT ![out_fname] = o.list]
            /\ flushed' = [flushed EXCEPT ![out_fname] =
                             IF o.failed THEN "failed" ELSE "ok"]
            /\ nbFail' = nbFail + (IF o.failed THEN 1 ELSE 0)
            /\ renames' = [renames EXCEPT ![out_fname] =
                             IF o.renamed THEN @ + 1 ELSE @]
    /\ ci' = ci + 1
    /\ UNCHANGED <<fps, max, order, pc, disk0, added, lastGrowth, clearsInRow,
                   nbClears>>
    /\ UNCHANGED <<rvars, svars, mvars>>

\* a clear() that returns without self._data.clear()
ClearEnd_KeepsData ==
    /\ pc = "clear"
    /\ ci > Len(order)
    /\ pc' = "idle"
    /\ ci' = 0
    /\ clearsInRow' = clearsInRow + 1
    /\ UNCHANGED <<disk, fps, max, data, order, disk0, added, renames, flushed,
                   nbFail, lastGrowth, nbClears>>
    /\ UNCHANGED <<rvars, svars, mvars>>

\* the end of Buffer.clear(): self._data.clear()
ClearEnd ==
    /\ pc = "clear"
    /\ ci > Len(order)
    /\ data' = [d \in Dests |-> <<>>]
    /\ order' = <<>>
    /\ pc' = "idle"
    /\ ci' = 0
    /\ clearsInRow' = clearsInRow + 1
    /\ UNCHANGED <<disk, fps, max, disk0, added, renames, flushed, nbFail,
                   lastGrowth, nbClears>>
    /\ UNCHANGED <<rvars, svars, mvars>>

----------------------------------------------------------------------------
\* Strings are sequences of characters; a row is a sequence of strings.

delimiter == "\t"
\* characters of the lines read
Chars == {"a", delimiter}
None == <<>>
\* values of text_col the reader is called with
TextCols == {None, <<-1>>, <<0>>, <<1>>}

\* physical lines per file
MaxLines == 3
\* characters per physical line
MaxLineLen == 2

RECURSIVE StringsUpTo(_)
StringsUpTo(n) ==
    IF n = 0 THEN {<<>>}
    ELSE LET shorter == StringsUpTo(n - 1)
         IN shorter \cup {Append(s, c) : s \in shorter, c \in Chars}

RECURSIVE FilesUpTo(_)
FilesUpTo(n) ==
    IF n = 0 THEN {<<>>}
    ELSE LET shorter == FilesUpTo(n - 1)
         IN shorter \cup {Append(f, l) : f \in shorter, l \in StringsUpTo(MaxLineLen)}

\* the file of the multiline example: "1\thello", "world", "", "2\tbye"
ExampleLines ==
    << <<"1", "\t", "h", "e", "l", "l", "o">>,
       <<"w", "o", "r", "l", "d">>,
       <<>>,
       <<"2", "\t", "b", "y", "e">> >>

\* str.split on one character, never empty: "a\t" gives ["a", ""]
RECURSIVE Fields(_, _)
Fields(s, dm) ==
    IF \A i \in 1..Len(s) : s[i] # dm THEN <<s>>
    ELSE LET i == CHOOSE k \in 1..Len(s) :
                     s[k] = dm /\ \A j \in 1..(k - 1) : s[j] # dm
         IN <<SubSeq(s, 1, i - 1)>> \o Fields(SubSeq(s, i + 1, Len(s)), dm)

\* one row of csv.reader(quoting=QUOTE_NONE): an empty line gives []
CsvRow(line, dm) == IF line = <<>> THEN <<>> ELSE Fields(line, dm)

\* delimiter.join(fields)
RECURSIVE Join(_, _)
Join(fields, dm) ==
    IF fields = <<>> THEN <<>>
    ELSE IF Len(fields) = 1 THEN fields[1]
    ELSE fields[1] \o <<dm>> \o Join(Tail(fields), dm)

\* Python's list indices count from 0, negative ones from the end
SliceBound(i, n) ==
    LET k == IF i < 0 THEN i + n ELSE i
    IN IF k < 0 THEN 0 ELSE IF k > n THEN n ELSE k

\* row[lo:hi]
Slice(row, lo, hi) ==
    SubSeq(row, SliceBound(lo, Len(row)) + 1, SliceBound(hi, Len(row)))

\* del row[lo:hi]
DelSlice(row, lo, hi) ==
    LET l == SliceBound(lo, Len(row))
        h == SliceBound(hi, Len(row))
    IN IF l < h THEN SubSeq(row, 1, l) \o SubSeq(row, h + 1, Len(row))
       ELSE row

\* row[i] is a valid subscript
ValidIndex(row, i) == -Len(row) <= i /\ i < Len(row)
\* row[i] = val
SetItem(row, i, val) ==
    [row EXCEPT ![(IF i < 0 THEN i + Len(row) ELSE i) + 1] = val]

\* unsplit_field: the row returned, or ok = FALSE when IndexError is raised
unsplit_field(row, nb, dm, index_field) ==
    LET idx == IF index_field < 0 THEN nb + index_field ELSE index_field
        nb_extra == Len(row) - nb
    IN IF nb_extra > 0
       THEN IF ValidIndex(row, idx)
            THEN LET fields_to_join == Slice(row, idx, idx + nb_extra + 1)
                     joined == SetItem(row, idx, Join(fields_to_join, dm))
                 IN [ok |-> TRUE,
                     row |-> DelSlice(joined, idx + 1, idx + nb_extra + 1)]
            ELSE [ok |-> FALSE, row |-> row]
       ELSE [ok |-> TRUE, row |-> row]

\* 'if text_col:' of custom_reader
Configured(tc) == tc # None /\ tc[1] # 0

\* the row after 'regroup text field if split by delimiter'
Regroup(row, nb, tc) ==
    IF Configured(tc) THEN unsplit_field(row, nb, delimiter, tc[1])
    ELSE [ok |-> TRUE, row |-> row]

\* a reader that takes every row with enough fields for a regular one
IsRegular_AtLeast(row, nb) == Len(row) >= nb

\* the branches of 'regroup multiline end fields'
IsRegular(row, nb) == Len(row) = nb

\* a reader that continues the record with the first field of any row
IsContinuation_AnyWidth(row, rr) == Len(row) >= 1 /\ rr # <<>>

IsContinuation(row, rr) == Len(row) = 1 /\ rr # <<>>
IsBlank(row, rr) == row = <<>> /\ rr # <<>>

\* a reader that continues the first field: real_row[0] += text
AddToLast_First(rr, text) == [rr EXCEPT ![1] = @ \o text]

\* real_row[-1] += text
AddToLast(rr, text) == [rr EXCEPT ![Len(rr)] = @ \o text]

\* a reader that extends the record without emptying it first
Restart_Extends(rr, row) == rr \o row

\* real_row after a regular row: emptied when it was yielded, then extended
Restart(rr, row) == row

ReaderInit ==
    /\ lines \in FilesUpTo(MaxLines) \cup {ExampleLines}
    /\ text_col \in TextCols
    /\ nb_cols = 0
    /\ pos = 0
    /\ real_row = <<>>
    /\ out = <<>>
    /\ rpc = "start"

\* nb_cols = len(next(reader)); string_io.seek(0)
ReadFirst ==
    /\ rpc = "start"
    /\ lines # <<>>
    /\ nb_cols' = Len(CsvRow(lines[1], delimiter))
    /\ rpc' = "rows"
    /\ UNCHANGED <<lines, text_col, pos, real_row, out>>
    /\ UNCHANGED <<bvars, svars, mvars>>

\* next(reader) on a file without a line raises StopIteration inside the
\* generator: RuntimeError since Python 3.7, the end of the generator before
ReadNothing ==
    /\ rpc = "start"
    /\ lines = <<>>
    /\ rpc' \in {"error", "done"}
    /\ UNCHANGED <<lines, text_col, nb_cols, pos, real_row, out>>
    /\ UNCHANGED <<bvars, svars, mvars>>

\* one turn of 'for row in reader', the yield included
ReadRow ==
    /\ rpc = "rows"
    /\ pos < Len(lines)
    /\ pos' = pos + 1
    /\ LET u == Regroup(CsvRow(lines[pos + 1], delimiter), nb_cols, text_col)
           row == u.row
       IN IF ~u.ok
          THEN /\ rpc' = "error"
               /\ UNCHANGED <<real_row, out>>
          ELSE /\ rpc' = rpc
               /\ IF IsRegular(row, nb_cols)
                  THEN /\ out' = IF real_row # <<>> THEN Append(out, real_row)
                                 ELSE out
                       /\ real_row' = Restart(real_row, row)
                  ELSE IF IsContinuation(row, real_row)
                  THEN /\ real_row' = AddToLast(real_row, <<" ">> \o row[1])
                       /\ out' = out
                  ELSE IF IsBlank(row, real_row)
                  THEN /\ real_row' = AddToLast(real_row, <<" ">>)
                       /\ out' = out
                  ELSE UNCHANGED <<real_row, out>>
    /\ UNCHANGED <<lines, text_col, nb_cols>>
    /\ UNCHANGED <<bvars, svars, mvars>>

\* the reader is exhausted: 'if real_row: yield real_row'
ReadEnd ==
    /\ rpc = "rows"
    /\ pos = Len(lines)
    /\ out' = IF real_row # <<>> THEN Append(out, real_row) ELSE out
    /\ rpc' = "done"
    /\ UNCHANGED <<lines, text_col, nb_cols, pos, real_row>>
    /\ UNCHANGED <<bvars, svars, mvars>>

\* no reader is running
ReaderIdle ==
    /\ lines = <<>>
    /\ text_col = None
    /\ nb_cols = 0
    /\ pos = 0
    /\ real_row = <<>>
    /\ out = <<>>
    /\ rpc = "done"

\* no Buffer is in use: an empty directory and an empty Buffer
BufferIdle ==
    /\ disk = [p \in Paths |-> NoFile]
    /\ fps = {}
    /\ max = 88
    /\ data = [d \in Dests |-> <<>>]
    /\ order = <<>>
    /\ pc = "idle"
    /\ ci = 0
    /\ disk0 = disk
    /\ added = [d \in Dests |-> <<>>]
    /\ renames = [d \in Dests |-> 0]
    /\ flushed = [d \in Dests |-> "none"]
    /\ nbFail = 0
    /\ lastGrowth = [d \in Dests |-> 0]
    /\ clearsInRow = 0
    /\ nbClears = 0

----------------------------------------------------------------------------
\* get_mapped_fields.

\* sequences of at most n elements of S
RECURSIVE SeqsUpTo(_, _)
SeqsUpTo(S, n) ==
    IF n = 0 THEN {<<>>}
    ELSE LET shorter == SeqsUpTo(S, n - 1)
         IN shorter \cup {Append(q, x) : q \in shorter, x \in S}

\* fields of a record
MaxFields == 2
\* columns asked for in one call
MaxColumns == 2
\* values of a field: "", "a", "1", "01"
Vals == {<<>>, <<"a">>, <<"1">>, <<"0", "1">>}
\* column indices asked for
Cols == (-MaxFields)..MaxFields

\* Python's None as a mapped value, which is not the empty string
Absent == <<"None">>
\* the language an index maps a key to
Lang == <<"e", "n">>

\* the index argument: None, or a dict
NoIndex == [given |-> FALSE, dict |-> <<>>]
Dict(d) == [given |-> TRUE, dict |-> d]
\* an int used as a key is never equal to a str: it is written here as its
\* decimal digits after a mark that no string starts with
IntKey(digits) == <<"int">> \o digits
Indexes ==
    {NoIndex,
     Dict([k \in {} |-> Lang]),
     Dict([k \in {<<"1">>} |-> Lang]),
     Dict([k \in {IntKey(<<"1">>)} |-> Lang])}

\* 'if index:': None and the empty dict are false
Truthy(idx) == idx.given /\ DOMAIN idx.dict # {}
\* dict.get(key)
DictGet(d, key) == IF key \in DOMAIN d THEN d[key] ELSE Absent

Digits == {"0", "1"}
\* int(val) raises ValueError unless val is a decimal literal
IsIntLiteral(val) == val # <<>> /\ \A i \in 1..Len(val) : val[i] \in Digits
\* the digits of int(val): leading zeros do not count
RECURSIVE StripZeros(_)
StripZeros(val) ==
    IF Len(val) > 1 /\ val[1] = "0" THEN StripZeros(Tail(val)) ELSE val
IntOf(val) == IntKey(StripZeros(val))

\* row[col]
GetItem(row, col) == row[(IF col < 0 THEN col + Len(row) ELSE col) + 1]

\* one turn of the loop of get_mapped_fields: the value appended, or the
\* exception raised
MapOne(row, col, idx, ik) ==
    IF Len(row) > col
    THEN IF ~ValidIndex(row, col)
         THEN [err |-> "IndexError", val |-> <<>>]
         ELSE LET val == GetItem(row, col)
              IN IF Truthy(idx)
                 THEN IF ik /\ ~IsIntLiteral(val)
                      THEN [err |-> "ValueError", val |-> <<>>]
                      ELSE [err |-> "none",
                            val |-> DictGet(idx.dict,
                                            IF ik THEN IntOf(val) ELSE val)]
                 ELSE [err |-> "none", val |-> val]
    ELSE [err |-> "none", val |-> <<>>]

\* a mapping that appends nothing for a column the record does not have
get_mapped_fields_SkipsMissing(row, cols, idx, ik) ==
    LET present == SelectSeq(cols, LAMBDA c : Len(row) > c)
        one(i) == MapOne(row, present[i], idx, ik)
        bad == {i \in 1..Len(present) : one(i).err # "none"}
    IN IF bad = {}
       THEN [err |-> "none",
             fields |-> [i \in 1..Len(present) |-> one(i).val]]
       ELSE [err |-> one(CHOOSE i \in bad : \A j \in bad : i <= j).err,
             fields |-> <<>>]

\* get_mapped_fields: the list returned, or the first exception raised
get_mapped_fields(row, cols, idx, ik) ==
    LET one(i) == MapOne(row, cols[i], idx, ik)
        bad == {i \in 1..Len(cols) : one(i).err # "none"}
    IN IF bad = {}
       THEN [err |-> "none", fields |-> [i \in 1..Len(cols) |-> one(i).val]]
       ELSE [err |-> one(CHOOSE i \in bad : \A j \in bad : i <= j).err,
             fields |-> <<>>]

NoResult == [err |-> "none", fields |-> <<>>]

MapperInit ==
    /\ args \in [row : SeqsUpTo(Vals, MaxFields),
                 columns : SeqsUpTo(Cols, MaxColumns),
                 index : Indexes,
                 int_key : BOOLEAN]
    /\ mapped = NoResult
    /\ mpc = "call"

\* the call returns its list
MapReturn ==
    /\ mpc = "call"
    /\ LET m == get_mapped_fields(args.row, args.columns, args.index,
                                  args.int_key)
       IN /\ m.err = "none"
          /\ mapped' = m
    /\ mpc' = "returned"
    /\ UNCHANGED args
    /\ UNCHANGED <<bvars, rvars, svars>>

\* the call raises
MapRaise ==
    /\ mpc = "call"
    /\ LET m == get_mapped_fields(args.row, args.columns, args.index,
                                  args.int_key)
       IN /\ m.err # "none"
          /\ mapped' = m
    /\ mpc' = "raised"
    /\ UNCHANGED args
    /\ UNCHANGED <<bvars, rvars, svars>>

\* no call of get_mapped_fields is under way
MapperIdle ==
    /\ args = [row |-> <<>>, columns |-> <<>>, index |-> NoIndex,
               int_key |-> FALSE]
    /\ mapped = NoResult
    /\ mpc = "returned"

----------------------------------------------------------------------------
\* DataFile.__iter__ and its callers: Links.__iter__,
\* UserLanguages.__iter__ and DataFile.split.

\* lines per source file
MaxSourceLines == 2
\* the lines of the source files: "", "a", "1\ta", "1\t", "a\t1\ta\ta"
SourceLines ==
    {<<>>, <<"a">>, <<"1", "\t", "a">>, <<"1", "\t">>,
     <<"a", "\t", "1", "\t", "a", "\t", "a">>}
SourceFiles == SeqsUpTo(SourceLines, MaxSourceLines)

Callers == {"Links", "UserLanguages", "split"}
\* text_col of the DataFile each caller iterates
TextColOf(c) ==
    IF c = "Links" THEN {None}
    ELSE IF c = "UserLanguages" THEN {<<-1>>}
    ELSE {None, <<-1>>}
\* the fieldnames of Links.__iter__ and of UserLanguages.__iter__
NbFieldnames(c) == IF c = "Links" THEN 2 ELSE 4

\* 'all(mapped_fields)': None and "" are false
All(fields) ==
    \A i \in 1..Len(fields) : fields[i] # <<>> /\ fields[i] # Absent

\* DataFile.stem of the file split
stem == <<"l", "i", "n", "k", "s">>
\* DataFile._get_out_filename
get_out_filename(mapped_fields) ==
    LET mapped_fields_string == Join(mapped_fields, "-")
        ext == IF delimiter = "\t" THEN <<"t", "s", "v">>
               ELSE <<"c", "s", "v">>
    IN mapped_fields_string \o <<"_">> \o stem \o <<".">> \o ext

\* positional parameters without default of get_mapped_fields and of
\* get_byte_size_of_row
NbParamsMapped == 4
NbParamsByteSize == 2
\* a call binds only when every required argument is passed: TypeError else
Binds(passed, nb) == Len(passed) = nb

SplitInit ==
    /\ is_file \in BOOLEAN
    /\ caller \in Callers
    /\ lines \in (IF is_file THEN SourceFiles ELSE {<<>>})
    /\ text_col \in TextColOf(caller)
    /\ columns \in (IF caller = "split" THEN {<<>>, <<0>>, <<1>>}
                    ELSE {<<>>})
    /\ index \in (IF caller = "split"
                  THEN {NoIndex, Dict([k \in {<<"1">>} |-> Lang])}
                  ELSE {NoIndex})
    /\ int_key = FALSE
    /\ spc = "start"
    /\ taken = 0
    /\ routed = <<>>
    /\ yielded = <<>>
    /\ nb_cols = 0
    /\ pos = 0
    /\ real_row = <<>>
    /\ out = <<>>
    /\ rpc = "start"

\* DataFile.__iter__ on a path that is no file raises NoDataFile: Links and
\* UserLanguages catch it and log a warning, split has no handler for it
IterMissing ==
    /\ spc = "start"
    /\ ~is_file
    /\ spc' = IF caller = "split" THEN "NoDataFile" ELSE "done"
    /\ UNCHANGED <<is_file, caller, columns, index, int_key, taken, routed,
                   yielded>>
    /\ UNCHANGED <<bvars, rvars, mvars>>

\* DataFile.__iter__ opens the file and hands it to custom_reader
IterOpen ==
    /\ spc = "start"
    /\ is_file
    /\ spc' = "rows"
    /\ UNCHANGED <<is_file, caller, columns, index, int_key, taken, routed,
                   yielded>>
    /\ UNCHANGED <<bvars, rvars, mvars>>

\* the generator runs while the caller's for loop waits for a record
Waiting == spc = "rows" /\ taken = Len(out)

IterReadFirst == Waiting /\ ReadFirst
IterReadNothing == Waiting /\ ReadNothing
IterReadRow == Waiting /\ ReadRow
IterReadEnd == Waiting /\ ReadEnd

\* an exception of custom_reader leaves DataFile.__iter__ and the caller
IterRaised ==
    /\ spc = "rows"
    /\ rpc = "error"
    /\ spc' = "ReaderError"
    /\ UNCHANGED <<is_file, caller, columns, index, int_key, taken, routed,
                   yielded>>
    /\ UNCHANGED <<bvars, rvars, mvars>>

\* one turn of the loop of Links.__iter__ or of UserLanguages.__iter__:
\* fieldnames[i] for every field, then Link(**row) or UserLanguage(**row)
ObjectRow ==
    /\ caller \in {"Links", "UserLanguages"}
    /\ spc = "rows"
    /\ taken < Len(out)
    /\ taken' = taken + 1
    /\ LET row == out[taken + 1]
       IN IF Len(row) > NbFieldnames(caller)
          THEN spc' = "IndexError" /\ yielded' = yielded
          ELSE IF Len(row) < NbFieldnames(caller)
          THEN spc' = "TypeError" /\ yielded' = yielded
          ELSE spc' = spc /\ yielded' = Append(yielded, row)
    /\ UNCHANGED <<is_file, caller, columns, index, int_key, routed>>
    /\ UNCHANGED <<bvars, rvars, mvars>>

\* one turn of the loop of DataFile.split: get_mapped_fields(row), then
\* buffer.add(row, fname) when all(mapped_fields), then
\* pbar.update(get_byte_size_of_row(row))
SplitRow ==
    /\ caller = "split"
    /\ spc = "rows"
    /\ taken < Len(out)
    /\ taken' = taken + 1
    /\ LET row == out[taken + 1]
           passed == <<row>>
       IN IF ~Binds(passed, NbParamsMapped)
          THEN spc' = "TypeError" /\ routed' = routed
          ELSE LET m == get_mapped_fields(row, columns, index, int_key)
               IN IF m.err # "none"
                  THEN spc' = m.err /\ routed' = routed
                  ELSE /\ routed' =
                            IF All(m.fields)
                            THEN Append(routed,
                                        [out_fname |->
                                             get_out_filename(m.fields),
                                         elt |-> row])
                            ELSE routed
                       /\ spc' = IF ~Binds(passed, NbParamsByteSize)
                                 THEN "TypeError" ELSE spc
    /\ UNCHANGED <<is_file, caller, columns, index, int_key, yielded>>
    /\ UNCHANGED <<bvars, rvars, mvars>>

\* the source is exhausted: Links and UserLanguages end, split goes on to
\* buffer.clear()
IterDone ==
    /\ Waiting
    /\ rpc = "done"
    /\ spc' = IF caller = "split" THEN "clear" ELSE "done"
    /\ UNCHANGED <<is_file, caller, columns, index, int_key, taken, routed,
                   yielded>>
    /\ UNCHANGED <<bvars, rvars, mvars>>

\* buffer.clear() of split, on the Buffer it built over path.parent
SplitClearBegin == spc = "clear" /\ nbClears = 0 /\ ClearBegin
SplitClearEnd == spc = "clear" /\ ClearEnd

\* split returns
SplitReturn ==
    /\ spc = "clear"
    /\ pc = "idle"
    /\ nbClears = 1
    /\ spc' = "done"
    /\ UNCHANGED <<is_file, caller, columns, index, int_key, taken, routed,
                   yielded>>
    /\ UNCHANGED <<bvars, rvars, mvars>>

\* no caller is iterating a DataFile
SplitIdle ==
    /\ is_file = FALSE
    /\ caller = "split"
    /\ columns = <<>>
    /\ index = NoIndex
    /\ int_key = FALSE
    /\ spc = "done"
    /\ taken = 0
    /\ routed = <<>>
    /\ yielded = <<>>

\* the Buffer that split builds: Buffer(self.path.parent), max_size 10000,
\* over a directory without out files
SplitBuffer ==
    /\ disk = [p \in Paths |-> NoFile]
    /\ fps = {}
    /\ max = 10000
    /\ data = [d \in Dests |-> <<>>]
    /\ order = <<>>
    /\ pc = "idle"
    /\ ci = 0
    /\ disk0 = disk
    /\ added = [d \in Dests |-> <<>>]
    /\ renames = [d \in Dests |-> 0]
    /\ flushed = [d \in Dests |-> "none"]
    /\ nbFail = 0
    /\ lastGrowth = [d \in Dests |-> 0]
    /\ clearsInRow = 0
    /\ nbClears = 0

----------------------------------------------------------------------------
Init == BufferInit /\ ReaderIdle /\ SplitIdle /\ MapperIdle

Next ==
    \/ \E elt \in Records, out_fname \in Dests : Add(elt, out_fname)
    \/ ClearBegin
    \/ ClearSave
    \/ ClearEnd

Spec == Init /\ [][Next]_vars

InitReader == ReaderInit /\ BufferIdle /\ SplitIdle /\ MapperIdle

NextReader ==
    \/ ReadFirst
    \/ ReadNothing
    \/ ReadRow
    \/ ReadEnd

SpecReader == InitReader /\ [][NextReader]_vars

InitSplit == SplitInit /\ SplitBuffer /\ MapperIdle

NextSplit ==
    \/ IterMissing
    \/ IterOpen
    \/ IterReadFirst
    \/ IterReadNothing
    \/ IterReadRow
    \/ IterReadEnd
    \/ IterRaised
    \/ ObjectRow
    \/ SplitRow
    \/ IterDone
    \/ SplitClearBegin
    \/ SplitClearEnd
    \/ SplitReturn

SpecSplit == InitSplit /\ [][NextSplit]_vars

InitMapper == MapperInit /\ BufferIdle /\ ReaderIdle /\ SplitIdle

NextMapper == MapReturn \/ MapRaise

SpecMapper == InitMapper /\ [][NextMapper]_vars


----------------------------------------------------------------------------
\* Properties of the Buffer, checked under Spec.

InSeq(x, seq) == \E i \in 1..Len(seq) : seq[i] = x
IsStale(x) == InSeq(x, StaleRows)
\* clear() has returned and no add() followed it
Finalized == pc = "idle" /\ clearsInRow >= 1
\* this step renamed the .part file of out_fname
RenamedNow(out_fname) == renames'[out_fname] = renames[out_fname] + 1

\* C1: no record is lost when a flush fails: at every point every element
\* passed to add() is still in its destination's list or has been appended to
\* that destination's file (in-progress or final).
C1_NoRecordLost ==
    \A d \in Dests : \A i \in 1..Len(added[d]) :
        \/ InSeq(added[d][i], data[d])
        \/ InSeq(added[d][i], Content(disk, PartPath(d)))
        \/ InSeq(added[d][i], Content(disk, Path(d)))

\* C2: no mixing across runs: when a destination's final file exists from a
\* prior run, the first add() for it removes that file before anything is
\* appended, and once the run has added its records and finalized (here even
\* granted that no flush failed), the final file holds exactly the records
\* added in the run.
C2_NoMixingAcrossRuns ==
    \A d \in Dests :
        Exists(disk0, Path(d)) /\ added[d] # <<>> =>
            /\ renames[d] = 0 => ~Exists(disk, Path(d))
            /\ Finalized /\ nbClears = 1 /\ nbFail = 0 =>
                  disk[Path(d)] = File(added[d])

\* C3: no bleed-through from an interrupted run: when a prior run left a
\* '.part' file for a destination, no row of that file is in the final file
\* the new run produces for the destination.
C3_NoStaleBleedThrough ==
    \A d \in Dests :
        Exists(disk0, PartPath(d)) /\ renames[d] > 0 =>
            \A i \in 1..Len(Content(disk, Path(d))) :
                ~IsStale(Content(disk, Path(d))[i])

C5_FinalNeverReplaced ==
    [][\A d \in Dests : renames[d] > 0 =>
          /\ renames'[d] = renames[d]
          /\ disk'[Path(d)] = disk[Path(d)]]_vars

\* C6 as claimed: the estimated size of a destination's list never exceeds
\* max_size by more than what the last added element contributed.
C6_BoundedQueue ==
    \A d \in Dests : InKeys(d) => getsizeof(data[d]) <= max + lastGrowth[d]

\* C6 as amended: whenever add() has returned, a list that holds elements has
\* an estimated size of at most max_size unless the last flush of its
\* destination failed: an add that takes the estimate over max_size flushes
\* inside the same call, and only a failed flush leaves the elements in the
\* list, over the threshold (and growing).
C6_BoundedUnlessFlushFailed ==
    \A d \in Dests :
        data[d] # <<>> /\ getsizeof(data[d]) > max => flushed[d] = "failed"

\* C6 witness: an add() went over the threshold and flushed: the list is empty
\* again and its elements are in the '.part' file.
C6_Witness ==
    \E d \in Dests :
        /\ pc = "idle" /\ InKeys(d) /\ flushed[d] = "ok" /\ renames[d] = 0
        /\ data[d] = <<>> /\ Len(added[d]) >= 5
        /\ ~Exists(disk0, PartPath(d))
        /\ disk[PartPath(d)] = File(added[d])

\* C7: finalize idempotence: a clear() called right after a clear() writes
\* nothing, renames nothing and deletes nothing: the directory and the Buffer
\* are as the first call left them.
C7_SecondClearNoOp ==
    [][clearsInRow >= 1 /\ clearsInRow' >= 1 =>
          /\ disk' = disk
          /\ renames' = renames
          /\ <<data, order, fps>>' = <<data, order, fps>>]_vars

\* C7 witness: two clear() calls in a row have returned, after a run that made
\* a file final.
C7_Witness ==
    /\ pc = "idle" /\ clearsInRow = 2
    /\ \E d \in Dests : renames[d] = 1 /\ disk[Path(d)] = File(added[d])


----------------------------------------------------------------------------
\* Properties of custom_reader, checked under SpecReader.

\* the fields of the physical line the loop takes in this step
RawRow == CsvRow(lines[pos + 1], delimiter)
\* this step is a turn of the loop that raised nothing
TakesRow == rpc = "rows" /\ pos' = pos + 1 /\ rpc' = "rows"
HasChar(str, c) == \E i \in 1..Len(str) : str[i] = c

\* C8: fixed record width: nb_cols is the number of fields of the first
\* physical line split on the delimiter, for the whole read, and every record
\* yielded has exactly nb_cols fields.
C8_FixedWidth ==
    lines # <<>> /\ rpc # "start" =>
        /\ nb_cols = Len(CsvRow(lines[1], delimiter))
        /\ \A i \in 1..Len(out) : Len(out[i]) = nb_cols

\* C8 witness: the read is over and yielded a record whose last field was
\* first merged from overflowing fields and then continued by a later line.
C8_Witness ==
    /\ rpc = "done" /\ nb_cols = 2
    /\ \E i \in 1..Len(out) :
          HasChar(out[i][2], delimiter) /\ HasChar(out[i][2], " ")

\* C9: multiline reconstruction: while a record is accumulating, a line of
\* exactly one field that is not a regular row is appended to the last field
\* of the record after one space, an empty line appends one space to it, the
\* other fields and the records yielded stay as they are; and the file
\* "1<TAB>hello", "world", "", "2<TAB>bye" read with text_col 1 yields
\* ["1", "hello world "] and then, at the end, ["2", "bye"].
C9_Continuation ==
    [][/\ TakesRow /\ real_row # <<>> /\ Len(RawRow) = 1 /\ nb_cols # 1 =>
            /\ real_row' = [real_row EXCEPT
                              ![nb_cols] = @ \o <<" ">> \o RawRow[1]]
            /\ out' = out
       /\ TakesRow /\ real_row # <<>> /\ RawRow = <<>> =>
            /\ real_row' = [real_row EXCEPT ![nb_cols] = @ \o <<" ">>]
            /\ out' = out
       /\ lines = ExampleLines /\ text_col = <<1>> /\ rpc' = "done" =>
            out' = << << <<"1">>,
                         <<"h", "e", "l", "l", "o", " ", "w", "o", "r", "l",
                           "d", " ">> >>,
                      << <<"2">>, <<"b", "y", "e">> >> >>]_vars

\* C9 witness: the example file has been read to its end.
C9_Witness ==
    /\ lines = ExampleLines /\ text_col = <<1>> /\ rpc = "done"
    /\ Len(out) = 2 /\ HasChar(out[1][2], " ")

\* text_col names a position of a record of nb fields, from either end
ValidTextCol(tc, nb) == tc # None /\ -nb <= tc[1] /\ tc[1] < nb

\* row with the fragments of its field i (counted from 0) joined again
Merged(row, nb, i) ==
    LET k == Len(row) - nb
    IN SubSeq(row, 1, i)
       \o <<Join(SubSeq(row, i + 1, i + k + 1), delimiter)>>
       \o SubSeq(row, i + k + 2, Len(row))

\* C10: overflow merge round trip: for every valid text_col, column 0 and the
\* negative indices included, a line of nb_cols + k fields with k > 0 is taken
\* as a row of nb_cols fields whose text field is its k + 1 fragments joined
\* with the delimiter, the other fields keeping their value and order.
C10_OverflowMerge ==
    [][rpc = "rows" /\ pos' = pos + 1 /\ ValidTextCol(text_col, nb_cols)
          /\ Len(RawRow) > nb_cols =>
          /\ rpc' = "rows"
          /\ real_row' = Merged(RawRow, nb_cols,
                                IF text_col[1] < 0 THEN nb_cols + text_col[1]
                                ELSE text_col[1])]_vars

\* line i is taken as a regular row: it starts a new record
StartsRecord(i) ==
    LET u == Regroup(CsvRow(lines[i], delimiter), nb_cols, text_col)
    IN u.ok /\ IsRegular(u.row, nb_cols)
\* the line that started the record accumulating once p lines are taken
StartLine(p) ==
    CHOOSE i \in 0..p :
        /\ i > 0 => StartsRecord(i)
        /\ \A j \in (i + 1)..p : ~StartsRecord(j)
SplitOf(i) == CsvRow(lines[i], delimiter)
\* this step yields a record
Emits == Len(out') = Len(out) + 1
Emitted == out'[Len(out')]
\* every line of the file splits into exactly nb_cols fields
AllExact == \A i \in 1..Len(lines) : Len(SplitOf(i)) = nb_cols

\* C11: identity, as claimed: for any physical line whose split on the
\* delimiter already has exactly nb_cols fields, the record the reader emits
\* for it equals that split unchanged (of which the file whose lines all have
\* nb_cols fields is a particular case).
C11_Identity ==
    [][Emits =>
          LET i == StartLine(pos)
          IN i > 0 /\ Len(SplitOf(i)) = nb_cols => Emitted = SplitOf(i)]_vars

\* C11 amended: a line whose split has exactly nb_cols fields becomes the
\* accumulating record unchanged, without error; the record emitted for it
\* equals that split when no single-field or empty line follows it before the
\* next record starts; and a file whose first line is not empty and whose
\* lines all split into nb_cols fields yields exactly those splits, one
\* record per line, in line order.
C11_IdentityUnlessContinued ==
    [][/\ rpc = "rows" /\ pos' = pos + 1 /\ Len(RawRow) = nb_cols =>
            rpc' = "rows" /\ real_row' = RawRow
       /\ Emits =>
            LET i == StartLine(pos)
            IN /\ i > 0 /\ Len(SplitOf(i)) = nb_cols
               /\ \A j \in (i + 1)..pos : Len(SplitOf(j)) > 1
               => Emitted = SplitOf(i)
       /\ rpc = "rows" /\ rpc' = "done" /\ nb_cols >= 1 /\ AllExact =>
            out' = [i \in 1..Len(lines) |-> SplitOf(i)]]_vars

\* C11 witness: a file of three lines of two fields each has been read to
\* its end and its records are the splits of its lines.
C11_Witness ==
    /\ rpc = "done" /\ nb_cols = 2 /\ Len(lines) = 3 /\ AllExact
    /\ out = [i \in 1..Len(lines) |-> SplitOf(i)]

\* line i is an exact match after overflow merge: it has nb_cols
\* fields, or more of them and a valid text field to merge them into
ExactAfterMerge(i) ==
    \/ Len(SplitOf(i)) = nb_cols
    \/ Len(SplitOf(i)) > nb_cols /\ ValidTextCol(text_col, nb_cols)
NbExact(p) == Cardinality({i \in 1..p : ExactAfterMerge(i)})

\* C17: reader emission protocol: over any finite sequence of physical lines
\* the reader emits exactly one record per exact-match row (nb_cols fields
\* after overflow merge), never twice and never none; a record is emitted
\* only when the next exact-match row arrives or at the end of the input,
\* where the still-accumulating record is emitted and the reader is done. So
\* while the rows of a file are read, every exact-match row but the last has
\* been emitted, at the end every one has, and the read never ends in an
\* error; stated for the files whose first line is not empty.
C17_EmissionProtocol ==
    lines # <<>> /\ lines[1] # <<>> =>
        /\ rpc # "error"
        /\ rpc = "rows" =>
              Len(out) = (IF NbExact(pos) = 0 THEN 0 ELSE NbExact(pos) - 1)
        /\ rpc = "done" => Len(out) = NbExact(Len(lines))

\* a malformed line: not an exact match, not to be merged
\* into one, and not a single-field or empty continuation of a record
Malformed(raw) ==
    /\ Len(raw) # nb_cols
    /\ ~(Len(raw) > nb_cols /\ text_col # None)
    /\ ~(Len(raw) <= 1 /\ real_row # <<>>)

C19_CompleteOrderedOutput ==
    \A d \in Dests :
        /\ Finalized /\ nbClears = 1 /\ nbFail = 0 /\ added[d] # <<>>
        /\ ~Exists(disk0, Path(d)) /\ ~Exists(disk0, PartPath(d))
        => /\ disk[Path(d)] = File(added[d])
           /\ ~Exists(disk, PartPath(d))

\* C19 witness: with the threshold at the size of the empty list every add()
\* flushed; two destinations received elements in turn, one of them three,
\* and after clear() each final file holds its own elements in order.
C19_Witness ==
    /\ Finalized /\ nbClears = 1 /\ nbFail = 0 /\ max = 56
    /\ \A p \in Paths : ~Exists(disk0, p)
    /\ \E d \in Dests : Len(added[d]) >= 3
    /\ \A d \in Dests : added[d] # <<>> /\ disk[Path(d)] = File(added[d])

\* C20: empty source: reading a file that exists but has no physical line
\* yields no record and ends normally, no error reaching the caller.
C20_EmptySource ==
    lines = <<>> => rpc # "error" /\ out = <<>>

----------------------------------------------------------------------------
\* Properties of the callers of DataFile.__iter__, checked under SpecSplit.

\* the caller was left by an exception
Aborted == spc \notin {"start", "rows", "clear", "done"}

\* C12: a missing source file is not fatal: iterating a DataFile whose path
\* is no file produces no record, and every caller (Links, UserLanguages and
\* DataFile.split) ends with an empty result and goes on, the NoDataFile
\* condition never leaving it as an error.
C12_MissingFileNotFatal ==
    ~is_file => ~Aborted /\ out = <<>> /\ yielded = <<>> /\ routed = <<>>

\* what split is to map the k-th record of the source to
MappedOf(k) == get_mapped_fields(out[k], columns, index, int_key)
Routable(k) == MappedOf(k).err = "none" /\ All(MappedOf(k).fields)
Incomplete(k) == MappedOf(k).err = "none" /\ ~All(MappedOf(k).fields)
IsRouted(k) ==
    InSeq([out_fname |-> get_out_filename(MappedOf(k).fields),
           elt |-> out[k]], routed)

\* C13: routing and finalization by split(): every record the reader emitted
\* whose mapped fields are all non-empty is added to the Buffer under the
\* name made of its mapped values joined with dashes, '_', the stem of the
\* source and '.tsv' (tab delimiter), and split finalizes the buffer and
\* returns once the source is exhausted, no record making it fail.
C13_Routing ==
    caller = "split" =>
        \A k \in 1..taken : Routable(k) => IsRouted(k) /\ ~Aborted

\* C14: skip on incomplete mapping: a record whose mapped fields include an
\* empty or absent value is never passed to Buffer.add by split(), raises no
\* error and does not stop the processing of the records after it.
C14_SkipIncomplete ==
    caller = "split" =>
        \A k \in 1..taken :
            Incomplete(k) =>
                /\ \A j \in 1..Len(routed) : routed[j].elt # out[k]
                /\ k = taken => ~Aborted

----------------------------------------------------------------------------
\* Properties of get_mapped_fields, checked under SpecMapper.

\* column i of the call names a field of the record
InRow(i) ==
    LET col == args.columns[i]
    IN -Len(args.row) <= col /\ col < Len(args.row)
RawValue(i) == GetItem(args.row, args.columns[i])

\* C15: lookup resolution: whenever an index is supplied, the empty one
\* included, every extracted raw value is resolved through it (as an int
\* when int_key is set), a value that is no key giving an absent value;
\* raw values pass through only when no index is supplied.
C15_LookupResolution ==
    mpc = "returned" =>
        \A i \in 1..Len(args.columns) :
            InRow(i) =>
                LET key == IF args.int_key THEN IntOf(RawValue(i))
                           ELSE RawValue(i)
                IN IF ~args.index.given THEN mapped.fields[i] = RawValue(i)
                   ELSE IF key \in DOMAIN args.index.dict
                   THEN mapped.fields[i] = args.index.dict[key]
                   ELSE mapped.fields[i] \in {Absent, <<>>}

\* one value per column asked for, in the order asked: "" for a column
\* that is not in the record, else what the column gives when asked alone
OneValuePerColumn ==
    /\ Len(mapped.fields) = Len(args.columns)
    /\ \A i \in 1..Len(args.columns) :
          IF InRow(i)
          THEN mapped.fields[i] =
                   get_mapped_fields(args.row, <<args.columns[i]>>,
                                     args.index, args.int_key).fields[1]
          ELSE mapped.fields[i] = <<>>

Mappable ==
    \A i \in 1..Len(args.columns) :
        /\ args.columns[i] >= -Len(args.row)
        /\ InRow(i) /\ args.int_key /\ Truthy(args.index) =>
              IsIntLiteral(RawValue(i))

====
